---- MODULE Spec2Model ----
(***************************************************************************)
(* Model of scripts/generate-static-plot.py: create_sample_plots() makes   *)
(* the directory static/img/static, renders three charts with matplotlib   *)
(* and saves each one under a fixed name, then prints a completion notice. *)
(*                                                                         *)
(* The state is the part of the filesystem the script touches, the         *)
(* position of the running script, its standard output, and the plotting   *)
(* calls it has made.  Every OS call that can raise (mkdir, the write of   *)
(* savefig, print) has a failing outcome chosen by the environment.        *)
(*                                                                         *)
(* Numbers are fixed point: coordinates and sin/cos values in 1e-4,        *)
(* randn samples in 1e-2, thickness values and amplitudes in 1e-6.         *)
(***************************************************************************)
EXTENDS Integers, Sequences, FiniteSets, TLC

VARIABLES
    pc,         \* position of the script: idle, makedirs, plot1..3, print, done, error
    run,        \* number of the current invocation (0 before the first)
    nodes,      \* the chain static, static/img, static/img/static: absent, dir or file
    files,      \* entries of static/img/static: name -> NoFile, DirEntry or a file
    stdout,     \* lines printed so far, each tagged with the run that printed it
    plotCalls,  \* the ax.plot / ax.contourf calls of the current run, in order
    failedAt,   \* the step of the current run that raised, or "none"
    pre,        \* the filesystem when the current run started, and how the run before ended
    succRuns,   \* length of the current streak of successful runs
    names1      \* names in the target directory after the first run of the streak

vars == <<pc, run, nodes, files, stdout, plotCalls, failedAt, pre, succRuns, names1>>

----------------------------------------------------------------------------
(* Bounds *)

MaxRuns == 3

----------------------------------------------------------------------------
(* Paths *)

\* 'static/img/static' split into its components, outermost first
DirChain == <<"static", "static/img", "static/img/static">>

Depth == Len(DirChain)

\* SavePath with the name of the first chart pasted into the second
SavePathClash(k) ==
    CASE k = 1 -> "cd_vs_dose.png"
      [] k = 2 -> "cd_vs_dose.png"
      [] k = 3 -> "resist_uniformity_3d.png"

SavePath(k) ==
    CASE k = 1 -> "cd_vs_dose.png"
      [] k = 2 -> "resolution_vs_wavelength.png"
      [] k = 3 -> "resist_uniformity_3d.png"

Title(k) ==
    CASE k = 1 -> "CD vs Exposure Dose"
      [] k = 2 -> "Resolution vs Wavelength"
      [] k = 3 -> "Resist Thickness Uniformity"

Plots == 1..3

\* a name in the target directory the script never uses
OtherName == "cd_vs_dose_1.png"

TargetNames == {SavePath(k) : k \in Plots}

FileNames == TargetNames \cup {OtherName}

NoFile == [kind |-> "none"]

DirEntry == [kind |-> "dir"]

File(chart, r, empty, valid) ==
    [kind |-> "file", chart |-> chart, run |-> r, empty |-> empty, valid |-> valid]

Names(f) == {n \in DOMAIN f : f[n] # NoFile}

----------------------------------------------------------------------------
(* Data of the three charts *)

\* Plot 1: CD vs Dose
dose == <<10, 15, 20, 25, 30>>

\* cd with a repeated value
cd_flat == <<22, 18, 16, 16, 13>>

cd == <<22, 18, 16, 14, 13>>

\* Plot 2: Resolution vs Wavelength (wavelengths in 1e-4 nm)
wavelength_euv == <<133000, 135000, 137000, 139000, 141000>>

\* resolution_euv with two values swapped
resolution_euv_swapped == <<22, 12, 16, 8, 5>>

resolution_euv == <<22, 16, 12, 8, 5>>

wavelength_duv == <<1930000, 2480000, 3650000, 4360000>>

\* resolution_duv with its last value dropped
resolution_duv_short == <<45, 65, 90>>

resolution_duv == <<45, 65, 90, 130>>

\* np.linspace(start, stop, num): num evenly spaced points, both ends included,
\* rounded to the nearest 1e-4
linspace(start, stop, num) ==
    [k \in 1..num |->
        start + (2 * (stop - start) * (k - 1) + (num - 1)) \div (2 * (num - 1))]

GridStop == 100000

GridCols == 15

GridRows == 6

x == linspace(0, GridStop, GridCols)

y == linspace(0, GridStop, GridRows)

\* np.meshgrid(x, y), default 'xy' indexing: Len(y) rows of Len(x) columns
meshgrid(xs, ys) ==
    [X |-> [i \in 1..Len(ys) |-> [j \in 1..Len(xs) |-> xs[j]]],
     Y |-> [i \in 1..Len(ys) |-> [j \in 1..Len(xs) |-> ys[i]]]]

\* .shape of a 2-D array
Shape(A) == <<Len(A), IF Len(A) = 0 THEN 0 ELSE Len(A[1])>>

\* np.sin at the points of x, in 1e-4
sin(a) ==
    CASE a = 0      -> 0
      [] a = 7143   -> 6551
      [] a = 14286  -> 9899
      [] a = 21429  -> 8408
      [] a = 28571  -> 2806
      [] a = 35714  -> -4167
      [] a = 42857  -> -9103
      [] a = 50000  -> -9589
      [] a = 57143  -> -5387
      [] a = 64286  -> 1449
      [] a = 71429  -> 7576
      [] a = 78571  -> 10000
      [] a = 85714  -> 7535
      [] a = 92857  -> 1386
      [] a = 100000 -> -5440

\* np.cos at the points of y, in 1e-4
cos(a) ==
    CASE a = 0      -> 10000
      [] a = 20000  -> -4161
      [] a = 40000  -> -6536
      [] a = 60000  -> 9602
      [] a = 80000  -> -1455
      [] a = 100000 -> -8391

\* largest magnitude np.random.randn returns, in 1e-2: the polar method on
\* 53-bit uniforms gives |n| <= sqrt(2 * 104 * ln 2) < 12.01
RandnMax == 1300

\* the values a draw of randn takes in the model, both extremes included
RandnSamples == <<-RandnMax, -100, 0, 100, RandnMax>>

Seeds == 0..(Len(RandnSamples) - 1)

\* np.random.randn(rows, cols): one draw per cell, taken in row-major order
\* from the stream the generator state `seed` determines
randn(rows, cols, seed) ==
    [i \in 1..rows |-> [j \in 1..cols |->
        RandnSamples[((seed + (i - 1) * cols + (j - 1)) % Len(RandnSamples)) + 1]]]

\* the literals of the thickness expression, in 1e-6
Base == 8800000

SinAmp == 100000

CosAmp == 50000

\* a noise amplitude of 0.2 instead of 0.02
NoiseAmpTenfold == 200000

NoiseAmp == 20000

\* Z = 8.8 + 0.1 * np.sin(X) + 0.05 * np.cos(Y) + 0.02 * np.random.randn(*X.shape)
Thickness(X, Y, seed) ==
    LET shape == Shape(X)
        N == randn(shape[1], shape[2], seed)
    IN  [i \in 1..shape[1] |-> [j \in 1..shape[2] |->
            Base + (SinAmp * sin(X[i][j])) \div 10000
                 + (CosAmp * cos(Y[i][j])) \div 10000
                 + (NoiseAmp * N[i][j]) \div 100]]

\* ax.plot(xs, ys)
PlotCall(xs, ys) == [fn |-> "plot", x |-> xs, y |-> ys, z |-> <<>>]

\* ax.contourf(X, Y, Z)
ContourCall(X, Y, Z) == [fn |-> "contourf", x |-> X, y |-> Y, z |-> Z]

\* the plotting calls of chart k, in the order the script makes them
Calls(k, seed) ==
    CASE k = 1 -> <<PlotCall(dose, cd)>>
      [] k = 2 -> <<PlotCall(wavelength_euv, resolution_euv),
                    PlotCall(wavelength_duv, resolution_duv)>>
      [] k = 3 -> LET g == meshgrid(x, y)
                  IN  <<ContourCall(g.X, g.Y, Thickness(g.X, g.Y, seed))>>

----------------------------------------------------------------------------
(* Filesystem operations *)

\* os.makedirs called without exist_ok
exist_ok_default == FALSE

\* the exist_ok argument the script passes to os.makedirs
exist_ok == TRUE

\* os.makedirs(DirChain[lvl], exist_ok=ok): make the parent first when it does
\* not exist, then mkdir the leaf; the FileExistsError of mkdir is swallowed
\* only when ok is set and the leaf is a directory.  failAt is the level whose
\* mkdir the environment refuses (0: none).
RECURSIVE makedirs(_, _, _, _)
makedirs(n, lvl, ok, failAt) ==
    LET head == IF lvl > 1 /\ n[lvl - 1] = "absent"
                THEN makedirs(n, lvl - 1, ok, failAt)
                ELSE [nodes |-> n, ok |-> TRUE]
        m == head.nodes
    IN  IF ~head.ok THEN head
        ELSE IF lvl > 1 /\ m[lvl - 1] # "dir" THEN [nodes |-> m, ok |-> FALSE]
        ELSE IF m[lvl] = "dir" THEN [nodes |-> m, ok |-> ok]
        ELSE IF m[lvl] = "file" THEN [nodes |-> m, ok |-> FALSE]
        ELSE IF failAt = lvl THEN [nodes |-> m, ok |-> FALSE]
        ELSE [nodes |-> [m EXCEPT ![lvl] = "dir"], ok |-> TRUE]

\* the file plt.savefig leaves at SavePath(k) when it succeeds
Image(k, r) == File(Title(k), r, FALSE, TRUE)

\* a write that keeps an existing file and saves beside it under another name
WriteFileBeside(f, name, content) ==
    IF f[name] = NoFile
    THEN [f EXCEPT ![name] = content]
    ELSE [f EXCEPT ![OtherName] = content]

\* open(name, 'wb') followed by a complete write: the entry is replaced
WriteFile(f, name, content) == [f EXCEPT ![name] = content]

\* plt.savefig of chart k can open its file for writing
CanOpen(n, f, k) == n[Depth] = "dir" /\ f[SavePath(k)] # DirEntry

\* a failing savefig that removes what the run wrote before it
FailedWriteRollback(f, k, r, how) ==
    [name \in DOMAIN f |->
        IF f[name].kind = "file" /\ f[name].run = r THEN NoFile ELSE f[name]]

\* what a savefig that raises leaves behind: nothing new when the open fails,
\* an empty or a cut-off file at its own path when the write fails
FailedWrite(f, k, r, how) ==
    CASE how = "open"      -> f
      [] how = "truncated" -> [f EXCEPT ![SavePath(k)] = File(Title(k), r, TRUE, FALSE)]
      [] how = "partial"   -> [f EXCEPT ![SavePath(k)] = File(Title(k), r, FALSE, FALSE)]

\* the steps with the savefig of the third chart left out
SavePlotNoThird(f, k, r) ==
    IF k = 3 THEN f ELSE WriteFile(f, SavePath(k), Image(k, r))

\* one whole render-and-save step that succeeds
SavePlot(f, k, r) == WriteFile(f, SavePath(k), Image(k, r))

----------------------------------------------------------------------------
(* Control flow *)

StepOf(k) ==
    CASE k = 1 -> "plot1"
      [] k = 2 -> "plot2"
      [] k = 3 -> "plot3"

\* the statement that follows a step in create_sample_plots
NextPc(step) ==
    CASE step = "makedirs" -> "plot1"
      [] step = "plot1"    -> "plot2"
      [] step = "plot2"    -> "plot3"
      [] step = "plot3"    -> "print"
      [] step = "print"    -> "done"

\* an exception that is caught and ignored: the script goes on
RaiseSwallowed(step) == NextPc(step)

\* an exception raised in a step is not caught: the process ends
Raise(step) == "error"

Notice == "Static plot fallbacks generated in static/img/static/"

----------------------------------------------------------------------------
(* Initial states: any state of the three directories and of the entries of *)
(* the target directory                                                     *)

NodeStates ==
    {n \in [1..Depth -> {"absent", "dir", "file"}] :
        \A l \in 2..Depth : n[l] # "absent" => n[l - 1] = "dir"}

Existing(name) ==
    IF name = OtherName
    THEN {NoFile, File("other", 0, FALSE, TRUE)}
    ELSE LET k == CHOOSE q \in Plots : SavePath(q) = name
         IN  {NoFile, DirEntry, File(Title(k), 0, FALSE, TRUE), File(Title(k), 0, TRUE, FALSE)}

FileStates(n) ==
    {f \in [FileNames -> UNION {Existing(name) : name \in FileNames}] :
        /\ \A name \in FileNames : f[name] \in Existing(name)
        /\ n[Depth] # "dir" => \A name \in FileNames : f[name] = NoFile}

Init ==
    /\ pc = "idle"
    /\ run = 0
    /\ nodes \in NodeStates
    /\ files \in FileStates(nodes)
    /\ stdout = <<>>
    /\ plotCalls = <<>>
    /\ failedAt = "none"
    /\ pre = [nodes |-> nodes, files |-> files, after |-> "idle"]
    /\ succRuns = 0
    /\ names1 = {}

----------------------------------------------------------------------------
(* Actions *)

\* python scripts/generate-static-plot.py
Invoke ==
    /\ pc \in {"idle", "done", "error"}
    /\ run < MaxRuns
    /\ run' = run + 1
    /\ pc' = "makedirs"
    /\ plotCalls' = <<>>
    /\ failedAt' = "none"
    /\ pre' = [nodes |-> nodes, files |-> files, after |-> pc]
    /\ UNCHANGED <<nodes, files, stdout, succRuns, names1>>

\* os.makedirs('static/img/static', exist_ok=True)
Makedirs ==
    /\ pc = "makedirs"
    /\ \E failAt \in 0..Depth :
        LET r == makedirs(nodes, Depth, exist_ok, failAt)
        IN  /\ nodes' = r.nodes
            /\ pc' = IF r.ok THEN NextPc("makedirs") ELSE Raise("makedirs")
            /\ failedAt' = IF r.ok THEN failedAt ELSE "makedirs"
            /\ succRuns' = IF r.ok THEN succRuns ELSE 0
    /\ UNCHANGED <<run, files, stdout, plotCalls, pre, names1>>

\* plt.subplots ... ax.plot / ax.contourf ... plt.savefig ... plt.close of chart k
SaveFig(k) ==
    /\ pc = StepOf(k)
    /\ \E seed \in (IF k = 3 THEN Seeds ELSE {0}),
          how \in {"ok", "open", "truncated", "partial"} :
        /\ plotCalls' = plotCalls \o Calls(k, seed)
        /\ IF CanOpen(nodes, files, k) /\ how = "ok"
           THEN /\ files' = SavePlot(files, k, run)
                /\ pc' = NextPc(StepOf(k))
                /\ UNCHANGED <<failedAt, succRuns>>
           ELSE /\ files' = IF CanOpen(nodes, files, k) /\ how # "ok"
                            THEN FailedWrite(files, k, run, how)
                            ELSE files
                /\ pc' = Raise(StepOf(k))
                /\ failedAt' = StepOf(k)
                /\ succRuns' = 0
    /\ UNCHANGED <<run, nodes, stdout, pre, names1>>

\* print(...)
PrintNotice ==
    /\ pc = "print"
    /\ \E ok \in BOOLEAN :
        IF ok
        THEN /\ stdout' = Append(stdout, [run |-> run, text |-> Notice])
             /\ pc' = NextPc("print")
             /\ succRuns' = succRuns + 1
             /\ names1' = IF succRuns = 0 THEN Names(files) ELSE names1
             /\ UNCHANGED failedAt
        ELSE /\ pc' = Raise("print")
             /\ failedAt' = "print"
             /\ succRuns' = 0
             /\ UNCHANGED <<stdout, names1>>
    /\ UNCHANGED <<run, nodes, files, plotCalls, pre>>

Next ==
    \/ Invoke
    \/ Makedirs
    \/ \E k \in Plots : SaveFig(k)
    \/ PrintNotice

Spec == Init /\ [][Next]_vars

----------------------------------------------------------------------------
(* Properties *)

AllDirs == \A l \in 1..Depth : nodes[l] = "dir"

\* the permutations of the three render-and-save steps
Orders == {p \in [Plots -> Plots] : \A k \in Plots : \E i \in Plots : p[i] = k}

\* the three steps carried out in the order p, none failing
RunOrder(f, p, r) == SavePlot(SavePlot(SavePlot(f, p[1], r), p[2], r), p[3], r)

\* the index of the step that raised, when it was a render-and-save step
FailedPlot == CHOOSE k \in Plots : StepOf(k) = failedAt

NoticesOf(r) == {i \in DOMAIN stdout : stdout[i].run = r}

WrittenBy(r) == {name \in FileNames : files[name].kind = "file" /\ files[name].run = r}

\* C1: after a run that reached the completion notice, each of the three
\* paths holds a non-empty file, and when the target directory held nothing
\* (or did not exist) before the run it holds exactly these three names.
C1_ThreeFilesAfterSuccess ==
    pc = "done" =>
        /\ nodes[Depth] = "dir"
        /\ \A k \in Plots :
            /\ files[SavePath(k)].kind = "file"
            /\ ~files[SavePath(k)].empty
        /\ Names(pre.files) = {} =>
            /\ Names(files) = {"cd_vs_dose.png", "resolution_vs_wavelength.png",
                               "resist_uniformity_3d.png"}
            /\ Cardinality(Names(files)) = 3

C1_Witness ==
    /\ pc = "done"
    /\ pre.nodes[1] = "absent"
    /\ Cardinality(Names(files)) = 3

\* C2: the directory step creates static/img/static with its parents when it
\* is absent; when the directory is already there the step does not raise and
\* changes nothing, so the step of a run that follows a successful run
\* succeeds.
C2_MakedirsIdempotent ==
    /\ pc = "plot1" => AllDirs
    /\ (pc = "plot1" /\ pre.nodes[Depth] = "dir") =>
            (nodes = pre.nodes /\ files = pre.files)
    /\ (run > 0 /\ pre.nodes[Depth] = "dir") => failedAt # "makedirs"
    /\ pre.after = "done" => failedAt # "makedirs"

C2_Witness ==
    /\ pc = "plot1"
    /\ run = 2
    /\ pre.after = "done"
    /\ nodes = pre.nodes

\* C3: after every run of a streak of successful runs the set of names in the
\* target directory is the set left by the first run of the streak: the three
\* files are overwritten in place, each run adds no name, and the three
\* generated files stay three.
C3_NoAccumulation ==
    pc = "done" =>
        /\ succRuns >= 1
        /\ Names(files) = names1
        /\ Cardinality(Names(files) \cap TargetNames) = 3
        /\ Names(files) \ TargetNames = Names(pre.files) \ TargetNames
        /\ Names(pre.files) \subseteq TargetNames => Cardinality(Names(files)) = 3

C3_Witness ==
    /\ pc = "done"
    /\ succRuns >= 2
    /\ Cardinality(Names(files)) = 3

\* C4: when the write of chart k raises, the files the same run wrote for the
\* charts before k are still on disk as written; nothing is rolled back.
C4_NoRollback ==
    failedAt \in {StepOf(k) : k \in Plots} =>
        \A j \in 1..(FailedPlot - 1) : files[SavePath(j)] = Image(j, run)

C4_Witness ==
    /\ failedAt = "plot3"
    /\ files[SavePath(1)] = Image(1, run)
    /\ files[SavePath(2)] = Image(2, run)
    /\ files[SavePath(3)] # Image(3, run)

\* C5 (state part): a step that raised leaves the run in the error state with
\* no notice and with the plotting calls of no later step; a failed directory
\* step leaves no file of this run; the notice of a run is printed at most
\* once, and exactly when the directory step and the three writes succeeded.
C5_State ==
    /\ failedAt # "none" => pc = "error"
    /\ pc = "error" => (failedAt # "none" /\ NoticesOf(run) = {})
    /\ failedAt = "makedirs" => (WrittenBy(run) = {} /\ files = pre.files /\ plotCalls = <<>>)
    /\ failedAt = "plot1" => Len(plotCalls) = 1
    /\ failedAt = "plot2" => Len(plotCalls) = 3
    /\ Cardinality(NoticesOf(run)) = IF pc = "done" THEN 1 ELSE 0
    /\ \A r \in 1..run : Cardinality(NoticesOf(r)) <= 1
    /\ pc = "done" => (AllDirs /\ \A k \in Plots : files[SavePath(k)] = Image(k, run))

\* C5 (step part): nothing of a failed run happens after the failure; the only
\* thing that follows is a new invocation, which finds the filesystem and the
\* output as the failure left them.
C5_Step ==
    pc = "error" =>
        /\ pc' = "makedirs"
        /\ run' = run + 1
        /\ nodes' = nodes
        /\ files' = files
        /\ stdout' = stdout

\* C5: a failure of the directory step or of a write ends the run there: no
\* later step runs, no retry, no notice; the notice appears once, after all
\* four steps succeeded.
C5_FailureIsFatal == []C5_State /\ [][C5_Step]_vars

C5_Witness ==
    /\ pc = "error"
    /\ failedAt = "plot2"
    /\ WrittenBy(run) = {SavePath(1)}
    /\ NoticesOf(run) = {}

ContourCalls == {i \in DOMAIN plotCalls : plotCalls[i].fn = "contourf"}

LineCalls == {i \in DOMAIN plotCalls : plotCalls[i].fn = "plot"}

\* C6: the thickness field handed to the contour plot has 6 rows of 15 cells
\* and every cell lies within 1 of 8.8 (7.8 <= Z <= 9.8, here in 1e-6),
\* whatever randn returned.
C6_ThicknessWithinOne ==
    \A c \in ContourCalls :
        LET Z == plotCalls[c].z
        IN  /\ Len(Z) = 6
            /\ \A i \in DOMAIN Z :
                /\ Len(Z[i]) = 15
                /\ \A j \in DOMAIN Z[i] : 7800000 <= Z[i][j] /\ Z[i][j] <= 9800000

\* a field whose first cell took the largest draw and whose second cell took
\* the smallest
C6_Witness ==
    \E c \in ContourCalls :
        /\ plotCalls[c].z[1][1] > 9000000
        /\ plotCalls[c].z[1][2] < 8700000

\* C7: the first chart plots (10,22),(15,18),(20,16),(25,14),(30,13); dose
\* strictly increases and critical dimension strictly decreases.
C7_DoseCdSeries ==
    Len(plotCalls) >= 1 =>
        LET c == plotCalls[1]
        IN  /\ c.fn = "plot"
            /\ c.x = <<10, 15, 20, 25, 30>>
            /\ c.y = <<22, 18, 16, 14, 13>>
            /\ \A i, j \in DOMAIN c.x : i < j => (c.x[i] < c.x[j] /\ c.y[i] > c.y[j])

C7_Witness ==
    /\ pc = "plot2"
    /\ Len(plotCalls) = 1
    /\ Len(plotCalls[1].y) = 5

\* C8: the EUV series of the second chart is (13.3,22),(13.5,16),(13.7,12),
\* (13.9,8),(14.1,5) (wavelengths here in 1e-4 nm); wavelength strictly
\* increases and feature size strictly decreases.
C8_EuvSeries ==
    Len(plotCalls) >= 2 =>
        LET c == plotCalls[2]
        IN  /\ c.fn = "plot"
            /\ c.x = <<133000, 135000, 137000, 139000, 141000>>
            /\ c.y = <<22, 16, 12, 8, 5>>
            /\ \A i, j \in DOMAIN c.x : i < j => (c.x[i] < c.x[j] /\ c.y[i] > c.y[j])

C8_Witness ==
    /\ pc = "plot3"
    /\ Len(plotCalls) = 3
    /\ plotCalls[2].x[1] = 133000

\* C9: the three render-and-save steps write to pairwise distinct names, none
\* touches the file of another, and carrying them out in any of the six
\* orders from the state the run started in gives the filesystem the run
\* ended with.
C9_OrderInsensitive ==
    /\ \A j, k \in Plots : j # k => SavePath(j) # SavePath(k)
    /\ \A j, k \in Plots :
        j # k => SavePlot(files, k, run)[SavePath(j)] = files[SavePath(j)]
    /\ pc = "done" => \A p \in Orders : RunOrder(pre.files, p, run) = files

C9_Witness ==
    /\ pc = "done"
    /\ Cardinality(Orders) = 6
    /\ \A k \in Plots : pre.files[SavePath(k)] # files[SavePath(k)]
    /\ RunOrder(pre.files, <<3, 1, 2>>, run) = files

\* C10: in every plotting call the arrays plotted together are non-empty and
\* agree in size: the x and y of each line have one length, and X, Y and Z of
\* the contour plot are all 6 rows of 15 cells.
C10_MatchingSizes ==
    /\ \A c \in LineCalls :
        /\ Len(plotCalls[c].x) > 0
        /\ Len(plotCalls[c].x) = Len(plotCalls[c].y)
    /\ \A c \in ContourCalls :
        \A A \in {plotCalls[c].x, plotCalls[c].y, plotCalls[c].z} :
            /\ Len(A) = 6
            /\ \A i \in DOMAIN A : Len(A[i]) = 15

C10_Witness ==
    /\ Cardinality(LineCalls) = 3
    /\ Cardinality(ContourCalls) = 1
    /\ Len(plotCalls[3].x) = 4

====
